---- MODULE Spec2Model ----
(***************************************************************************)
(* Model of the field / polynomial layer of zksnark-rs:                    *)
(*   src/src/field/z251.rs   the prime field Z251 over a u8                *)
(*   src/src/field/mod.rs    ext_euc_alg, Polynomial, polynomial_division,  *)
(*                           powers, dft, idft                             *)
(*   src/src/groth16/fft.rs  PointWise addition                            *)
(***************************************************************************)
EXTENDS Integers, Sequences, FiniteSets, TLC

(***************************************************************************)
(* Program constants and machine widths.                                   *)
(***************************************************************************)
P == 251
U8 == 256
U16 == 65536

(***************************************************************************)
(* Bounds of the exploration.                                              *)
(***************************************************************************)
MaxArg == 3
MaxCoeff == 2
MaxLen == 3
MaxDftLen == 5
MaxIters == 2
MaxDraws == 4
MaxBase == 2
MaxPts == 2
MaxVal == 1
MaxCrtLen == 3
MaxModulus == 5
MaxRem == 2

(***************************************************************************)
(* Z251: struct Z251 { inner: u8 } and its operators.                      *)
(***************************************************************************)
Z251 == 0 .. (P - 1)

zero == 0
one == 1

add(lhs, rhs) ==
    LET sum == (lhs + rhs) % U16
    IN  (sum % P) % U8

neg(a) == (P - a) % U8

sub(lhs, rhs) == add(lhs, neg(rhs))

mul(lhs, rhs) ==
    LET product == (lhs * rhs) % U16
    IN  (product % P) % U8

(* isize division: Rust's `/` truncates toward zero. *)
isize_div(a, b) ==
    IF (a >= 0) = (b >= 0)
    THEN (IF a >= 0 THEN a ELSE -a) \div (IF b >= 0 THEN b ELSE -b)
    ELSE -((IF a >= 0 THEN a ELSE -a) \div (IF b >= 0 THEN b ELSE -b))

RECURSIVE ext_euc_loop(_, _, _, _, _, _)
ext_euc_loop(r0, r1, s0, s1, t0, t1) ==
    IF r1 # 0
    THEN LET q == isize_div(r0, r1)
             r == r0 - q * r1
             s == s0 - q * s1
             t == t0 - q * t1
         IN  ext_euc_loop(r1, r, s1, s, t1, t)
    ELSE <<r0, s0, t0>>

ext_euc_alg(a, b) == ext_euc_loop(a, b, 1, 0, 0, 1)

RECURSIVE lift_inv(_)
lift_inv(inv) == IF inv < 0 THEN lift_inv(inv + P) ELSE inv

(* div reading the Bezout coefficient of the modulus instead of the operand's *)
div_wrong_coefficient(lhs, rhs) ==
    LET inv == lift_inv(ext_euc_alg(rhs, P)[3])
    IN  mul(lhs, inv % U8)

div(lhs, rhs) ==
    LET inv == lift_inv(ext_euc_alg(rhs, P)[2])
    IN  mul(lhs, inv % U8)

mul_inv(a) == div(one, a)

(* From<usize> for Z251: assert!(n < 251). *)
from_usize(n) == IF n < P THEN n ELSE CHOOSE v \in {} : TRUE

(***************************************************************************)
(* Iterator adaptors used by the polynomial code.                          *)
(***************************************************************************)
rev(s) == [i \in 1 .. Len(s) |-> s[Len(s) + 1 - i]]

RECURSIVE skip_while_zero(_)
skip_while_zero(s) ==
    IF s # <<>> /\ Head(s) = zero THEN skip_while_zero(Tail(s)) ELSE s

RECURSIVE fold_sum(_, _)
fold_sum(s, acc) ==
    IF s = <<>> THEN acc ELSE fold_sum(Tail(s), add(acc, Head(s)))

(***************************************************************************)
(* trait Polynomial<T>, on Vec<Z251> (index i is stored at position i+1).  *)
(***************************************************************************)
RECURSIVE degree_loop(_, _)
degree_loop(rcoeffs, deg) ==
    IF rcoeffs = <<>>
    THEN deg
    ELSE IF Head(rcoeffs) = zero /\ deg # 0
         THEN degree_loop(Tail(rcoeffs), deg - 1)
         ELSE deg

degree(coeffs) ==
    degree_loop(rev(coeffs), IF Len(coeffs) = 0 THEN 0 ELSE Len(coeffs) - 1)

RECURSIVE horner(_, _, _)
horner(rcoeffs, x, acc) ==
    IF rcoeffs = <<>>
    THEN acc
    ELSE horner(Tail(rcoeffs), x, add(mul(acc, x), Head(rcoeffs)))

(* evaluate folding from the lowest coefficient (no .rev()) *)
evaluate_unreversed(coeffs, x) == horner(coeffs, x, zero)

evaluate(coeffs, x) == horner(rev(coeffs), x, zero)

(* remove_leading_zeros skipping from the front (no .rev()) *)
remove_front_zeros(coeffs) == skip_while_zero(coeffs)

remove_leading_zeros(coeffs) == rev(skip_while_zero(rev(coeffs)))

(***************************************************************************)
(* powers(x): once(identity).chain(unfold(identity, |state| state * x)).    *)
(* An iterator is its captured base, whether the `once` item is still to    *)
(* come, and the unfold state.                                              *)
(***************************************************************************)
powers(x) == [x |-> x, fresh |-> TRUE, state |-> one]

powers_next(it) ==
    IF it.fresh
    THEN [item |-> one, it |-> [it EXCEPT !.fresh = FALSE]]
    ELSE LET s == mul(it.state, it.x)
         IN  [item |-> s, it |-> [it EXCEPT !.state = s]]

RECURSIVE take(_, _)
take(it, n) ==
    IF n = 0
    THEN <<>>
    ELSE LET nx == powers_next(it) IN <<nx.item>> \o take(nx.it, n - 1)

(* zip(seq, powers(ri)).map(|(a, r)| a * r) *)
zip_mul(seq, ri) ==
    LET pw == take(powers(ri), Len(seq))
    IN  [j \in 1 .. Len(seq) |-> mul(seq[j], pw[j])]

dft(seq, root) ==
    LET ris == take(powers(root), Len(seq))
    IN  [i \in 1 .. Len(seq) |-> fold_sum(zip_mul(seq, ris[i]), zero)]

(* idft walking the powers of root instead of root.mul_inv() *)
idft_forward_root(seq, root) ==
    LET ris == take(powers(root), Len(seq))
    IN  [i \in 1 .. Len(seq) |->
            mul(fold_sum(zip_mul(seq, ris[i]), zero),
                mul_inv(from_usize(Len(seq))))]

idft(seq, root) ==
    LET ris == take(powers(mul_inv(root)), Len(seq))
    IN  [i \in 1 .. Len(seq) |->
            mul(fold_sum(zip_mul(seq, ris[i]), zero),
                mul_inv(from_usize(Len(seq))))]

(* The reference sum of the property test: zip(powers(x)).fold(acc + c * x) *)
weighted_sum(coeffs, x) == fold_sum(zip_mul(coeffs, x), zero)

(***************************************************************************)
(* polynomial_division(poly, dividend): `dividend` is the divisor.          *)
(***************************************************************************)
(* the zero check looking only at the length of the vector *)
is_zero_poly_empty_only(coeffs) == Len(coeffs) = 0

is_zero_poly(coeffs) == Len(skip_while_zero(coeffs)) = 0

(* One pass of the loop body over the running remainder r. *)
div_s(r, dvd) == div(r[degree(r) + 1], dvd[degree(dvd) + 1])

div_sub(r, dvd, s) ==
    LET top == Len(skip_while_zero(rev(r)))
        m   == Len(dvd)
    IN  [i \in 1 .. Len(r) |->
            IF i <= top /\ top - i < m
            THEN sub(r[i], mul(dvd[m - (top - i)], s))
            ELSE r[i]]

(* the loop body without the trailing r.remove_leading_zeros() *)
div_body_r_untrimmed(r, dvd) == div_sub(r, dvd, div_s(r, dvd))

div_body_r(r, dvd) == remove_leading_zeros(div_sub(r, dvd, div_s(r, dvd)))

div_body_q(q, r, dvd) ==
    [q EXCEPT ![degree(r) - degree(dvd) + 1] = div_s(r, dvd)]

div_loop_cond(r, dvd) == degree(r) >= degree(dvd) /\ Len(r) # 0

(***************************************************************************)
(* impl Add for PointWise<P>: zip the two point lists, keep the left        *)
(* operand's index, add the values.                                         *)
(***************************************************************************)
Min(a, b) == IF a <= b THEN a ELSE b

pointwise_add(lhs, rhs) ==
    [i \in 1 .. Min(Len(lhs), Len(rhs)) |->
        [degree |-> lhs[i].degree, y |-> lhs[i].y + rhs[i].y]]

(***************************************************************************)
(* impl EllipticEncryptable for Z251: the toy groups are Z251 itself.      *)
(***************************************************************************)
encrypt_g1(a) == mul(a, from_usize(69))

encrypt_g2(a) == mul(a, from_usize(69))

(* a pairing that adds its arguments *)
pairing_sum(g1, g2) == add(g1, g2)

pairing(g1, g2) == mul(g1, g2)

(***************************************************************************)
(* Encryptable::random for Z251: rand::random::<u8>() % 251, as a function *)
(* of the byte the generator hands out.                                    *)
(***************************************************************************)
random_from(byte) == (byte % P) % U8

(***************************************************************************)
(* chinese_remainder over isize.                                           *)
(***************************************************************************)
RECURSIVE fold_prod(_, _)
fold_prod(s, acc) ==
    IF s = <<>> THEN acc ELSE fold_prod(Tail(s), acc * Head(s))

RECURSIVE fold_plus(_, _)
fold_plus(s, acc) ==
    IF s = <<>> THEN acc ELSE fold_plus(Tail(s), acc + Head(s))

(* chinese_remainder keeping the Bezout coefficient of the modulus *)
chinese_remainder_wrong_coefficient(rs, ms) ==
    LET prod == fold_prod(ms, 1)
        xs == [i \in 1 .. Len(ms) |-> isize_div(prod, ms[i])]
        mx == [i \in 1 .. Len(ms) |-> ext_euc_alg(xs[i], ms[i])[3] * xs[i]]
        terms == [i \in 1 .. Min(Len(ms), Len(rs)) |-> mx[i] * rs[i]]
    IN  fold_plus(terms, 0)

chinese_remainder(rs, ms) ==
    LET prod == fold_prod(ms, 1)
        xs == [i \in 1 .. Len(ms) |-> isize_div(prod, ms[i])]
        mx == [i \in 1 .. Len(ms) |-> ext_euc_alg(xs[i], ms[i])[2] * xs[i]]
        terms == [i \in 1 .. Min(Len(ms), Len(rs)) |-> mx[i] * rs[i]]
    IN  fold_plus(terms, 0)

(***************************************************************************)
(* State.                                                                  *)
(*   fx, fy, fop, fprev, fret : a chain of Z251 operations; fx holds the   *)
(*     latest result, fprev the left operand it was computed from, fy the  *)
(*     right operand, fret how the call ended                              *)
(*   pin, pself, px, pop, pval : a coefficient vector as constructed, its  *)
(*     current value (remove_leading_zeros mutates it), the evaluation     *)
(*     point, the last method called and the value it returned             *)
(*   poly, dividend, q, r, dpc : polynomial_division's arguments, locals   *)
(*     and position; at dpc = "done" (q, r) is the returned pair           *)
(*   passes : how many times the body of the division loop has run         *)
(*   seq, root, freq, back, tpc : a sequence, its dft and the idft of that *)
(*   iters, drawn : the live powers() iterators and what each has yielded  *)
(*   lhs, rhs, sum, apc : PointWise operands and the result of lhs + rhs   *)
(*   ea, eb, ec, eleft, eright, epc : three scalars and the two pairings   *)
(*     built from them                                                     *)
(*   rsrc, relem, rop : the byte drawn from the generator, the element     *)
(*     made of it, and the sampling call in progress                       *)
(*   rems, moduli, cres, cpc : chinese_remainder's arguments and result    *)
(***************************************************************************)
VARIABLES fx, fy, fop, fprev, fret,
          pin, pself, px, pop, pval,
          poly, dividend, q, r, dpc, passes,
          seq, root, freq, back, tpc,
          iters, drawn,
          lhs, rhs, sum, apc,
          ea, eb, ec, eleft, eright, epc,
          rsrc, relem, rop,
          rems, moduli, cres, cpc

fieldVars == <<fx, fy, fop, fprev, fret>>
polyVars == <<pin, pself, px, pop, pval>>
divVars == <<poly, dividend, q, r, dpc, passes>>
dftVars == <<seq, root, freq, back, tpc>>
powVars == <<iters, drawn>>
addVars == <<lhs, rhs, sum, apc>>
pairVars == <<ea, eb, ec, eleft, eright, epc>>
rndVars == <<rsrc, relem, rop>>
crtVars == <<rems, moduli, cres, cpc>>
extVars == <<pairVars, rndVars, crtVars>>

vars == <<fieldVars, polyVars, divVars, dftVars, powVars, addVars, extVars>>

(* The parts of the state a specification does not exercise. *)
FieldIdle == fx = 0 /\ fy = 0 /\ fop = "idle" /\ fprev = 0 /\ fret = "value"
PolyIdle == pin = <<>> /\ pself = <<>> /\ px = 0 /\ pop = "idle" /\ pval = 0
DivIdle == poly = <<>> /\ dividend = <<>> /\ q = <<>> /\ r = <<>> /\ dpc = "idle" /\ passes = 0
DftIdle == seq = <<>> /\ root = 1 /\ freq = <<>> /\ back = <<>> /\ tpc = "idle"
PowIdle == iters = <<>> /\ drawn = <<>>
AddIdle == lhs = <<>> /\ rhs = <<>> /\ sum = <<>> /\ apc = "idle"
PairIdle == ea = 0 /\ eb = 0 /\ ec = 0 /\ eleft = 0 /\ eright = 0 /\ epc = "idle"
RndIdle == rsrc = 0 /\ relem = 0 /\ rop = "idle"
CrtIdle == rems = <<>> /\ moduli = <<>> /\ cres = 0 /\ cpc = "idle"
ExtIdle == PairIdle /\ RndIdle /\ CrtIdle

(***************************************************************************)
(* Inputs.                                                                 *)
(***************************************************************************)
SeqsUpTo(S, n) == UNION {[1 .. k -> S] : k \in 0 .. n}

FieldArgs == (0 .. MaxArg) \cup {P - 1}
Coeffs == {from_usize(n) : n \in 0 .. MaxCoeff}
Polys == SeqsUpTo(Coeffs, MaxLen)
EvalPoints == {from_usize(n) : n \in FieldArgs}
Bases == {from_usize(n) : n \in (0 .. MaxBase) \cup {P - 1}}

(***************************************************************************)
(* Field operations on the chain.                                          *)
(***************************************************************************)
InitField ==
    /\ fx \in {from_usize(n) : n \in 0 .. (P - 1)}
    /\ fy \in {from_usize(n) : n \in FieldArgs}
    /\ fop = "init"
    /\ fprev = fx
    /\ fret = "value"
    /\ PolyIdle /\ DivIdle /\ DftIdle /\ PowIdle /\ AddIdle /\ ExtIdle

FieldStep(op, result) ==
    /\ fx' = result
    /\ fprev' = fx
    /\ fop' = op
    /\ fret' = "value"
    /\ fy' = fy
    /\ UNCHANGED <<polyVars, divVars, dftVars, powVars, addVars, extVars>>

Add == FieldStep("add", add(fx, fy))

Neg == FieldStep("neg", neg(fx))

Sub == FieldStep("sub", sub(fx, fy))

Mul == FieldStep("mul", mul(fx, fy))

Div == FieldStep("div", div(fx, fy))

MulInv == FieldStep("mul_inv", mul_inv(fx))

NextField == Add \/ Neg \/ Sub \/ Mul \/ Div \/ MulInv

SpecField == InitField /\ [][NextField]_vars

(***************************************************************************)
(* Polynomial methods on a coefficient vector.                             *)
(***************************************************************************)
InitPoly ==
    /\ pin \in Polys
    /\ pself = pin
    /\ px \in EvalPoints
    /\ pop = "init"
    /\ pval = 0
    /\ FieldIdle /\ DivIdle /\ DftIdle /\ PowIdle /\ AddIdle /\ ExtIdle

Degree ==
    /\ pop' = "degree"
    /\ pval' = degree(pself)
    /\ UNCHANGED <<pin, pself, px>>
    /\ UNCHANGED <<fieldVars, divVars, dftVars, powVars, addVars, extVars>>

Evaluate ==
    /\ pop' = "evaluate"
    /\ pval' = evaluate(pself, px)
    /\ UNCHANGED <<pin, pself, px>>
    /\ UNCHANGED <<fieldVars, divVars, dftVars, powVars, addVars, extVars>>

RemoveLeadingZeros ==
    /\ pop' = "remove_leading_zeros"
    /\ pself' = remove_leading_zeros(pself)
    /\ UNCHANGED <<pin, px, pval>>
    /\ UNCHANGED <<fieldVars, divVars, dftVars, powVars, addVars, extVars>>

NextPoly == Degree \/ Evaluate \/ RemoveLeadingZeros

SpecPoly == InitPoly /\ [][NextPoly]_vars

(***************************************************************************)
(* polynomial_division, one loop pass per step.                            *)
(***************************************************************************)
InitDiv ==
    /\ poly \in Polys
    /\ dividend \in Polys
    /\ q = <<>>
    /\ r = <<>>
    /\ dpc = "start"
    /\ passes = 0
    /\ FieldIdle /\ PolyIdle /\ DftIdle /\ PowIdle /\ AddIdle /\ ExtIdle

DivPanic ==
    /\ dpc = "start"
    /\ is_zero_poly(dividend)
    /\ dpc' = "panic"
    /\ UNCHANGED <<poly, dividend, q, r, passes>>
    /\ UNCHANGED <<fieldVars, polyVars, dftVars, powVars, addVars, extVars>>

DivBaseCase ==
    /\ dpc = "start"
    /\ ~is_zero_poly(dividend)
    /\ degree(dividend) > degree(poly)
    /\ q' = <<zero>>
    /\ r' = <<zero>>
    /\ dpc' = "done"
    /\ UNCHANGED <<poly, dividend, passes>>
    /\ UNCHANGED <<fieldVars, polyVars, dftVars, powVars, addVars, extVars>>

DivBegin ==
    /\ dpc = "start"
    /\ ~is_zero_poly(dividend)
    /\ ~(degree(dividend) > degree(poly))
    /\ poly' = remove_leading_zeros(poly)
    /\ dividend' = remove_leading_zeros(dividend)
    /\ q' = [i \in 1 .. (degree(poly') + 1 - degree(dividend')) |-> zero]
    /\ r' = poly'
    /\ dpc' = "loop"
    /\ passes' = 0
    /\ UNCHANGED <<fieldVars, polyVars, dftVars, powVars, addVars, extVars>>

DivIter ==
    /\ dpc = "loop"
    /\ div_loop_cond(r, dividend)
    /\ q' = div_body_q(q, r, dividend)
    /\ r' = div_body_r(r, dividend)
    /\ passes' = passes + 1
    /\ UNCHANGED <<poly, dividend, dpc>>
    /\ UNCHANGED <<fieldVars, polyVars, dftVars, powVars, addVars, extVars>>

DivReturn ==
    /\ dpc = "loop"
    /\ ~div_loop_cond(r, dividend)
    /\ dpc' = "done"
    /\ UNCHANGED <<poly, dividend, q, r, passes>>
    /\ UNCHANGED <<fieldVars, polyVars, dftVars, powVars, addVars, extVars>>

NextDiv == DivPanic \/ DivBaseCase \/ DivBegin \/ DivIter \/ DivReturn

SpecDiv == InitDiv /\ [][NextDiv]_vars

(***************************************************************************)
(* dft then idft of a sequence, with a root of the sequence's order.       *)
(***************************************************************************)
RECURSIVE is_one_after(_, _, _)
is_one_after(x, acc, k) ==
    IF k = 0 THEN acc = one ELSE is_one_after(x, mul(acc, x), k - 1)

(* root is a primitive n-th root of unity: root^n = 1, root^k # 1 below n. *)
PrimitiveRoot(x, n) ==
    /\ is_one_after(x, one, n)
    /\ \A k \in 1 .. (n - 1) : ~is_one_after(x, one, k)

DftLens == {n \in 1 .. MaxDftLen : (P - 1) % n = 0}

InitDft ==
    /\ \E n \in DftLens :
          /\ seq \in [1 .. n -> Coeffs]
          /\ root \in {x \in 1 .. (P - 1) : PrimitiveRoot(x, n)}
    /\ freq = <<>>
    /\ back = <<>>
    /\ tpc = "start"
    /\ FieldIdle /\ PolyIdle /\ DivIdle /\ PowIdle /\ AddIdle /\ ExtIdle

Dft ==
    /\ tpc = "start"
    /\ freq' = dft(seq, root)
    /\ tpc' = "dft"
    /\ UNCHANGED <<seq, root, back>>
    /\ UNCHANGED <<fieldVars, polyVars, divVars, powVars, addVars, extVars>>

Idft ==
    /\ tpc = "dft"
    /\ back' = idft(freq, root)
    /\ tpc' = "idft"
    /\ UNCHANGED <<seq, root, freq>>
    /\ UNCHANGED <<fieldVars, polyVars, divVars, powVars, addVars, extVars>>

NextDft == Dft \/ Idft

SpecDft == InitDft /\ [][NextDft]_vars

(***************************************************************************)
(* Consumers of powers(): each call builds an iterator of its own; a draw  *)
(* advances one of them.                                                   *)
(***************************************************************************)
InitPowers ==
    /\ iters = <<>>
    /\ drawn = <<>>
    /\ FieldIdle /\ PolyIdle /\ DivIdle /\ DftIdle /\ AddIdle /\ ExtIdle

(* a draw advancing one cursor shared by all iterators *)
draw_shared(its, i) == [j \in 1 .. Len(its) |-> powers_next(its[j]).it]

draw(its, i) == [its EXCEPT ![i] = powers_next(its[i]).it]

PowersCall(x) ==
    /\ Len(iters) < MaxIters
    /\ iters' = Append(iters, powers(x))
    /\ drawn' = Append(drawn, <<>>)
    /\ UNCHANGED <<fieldVars, polyVars, divVars, dftVars, addVars, extVars>>

PowersDraw(i) ==
    /\ Len(drawn[i]) < MaxDraws
    /\ drawn' = [drawn EXCEPT ![i] = Append(@, powers_next(iters[i]).item)]
    /\ iters' = draw(iters, i)
    /\ UNCHANGED <<fieldVars, polyVars, divVars, dftVars, addVars, extVars>>

NextPowers ==
    \/ \E x \in Bases : PowersCall(x)
    \/ \E i \in 1 .. Len(iters) : PowersDraw(i)

SpecPowers == InitPowers /\ [][NextPowers]_vars

(***************************************************************************)
(* PointWise addition.                                                     *)
(***************************************************************************)
PointSet == [degree : 0 .. (MaxPts - 1), y : 0 .. MaxVal]
PointLists == SeqsUpTo(PointSet, MaxPts)

InitPointWise ==
    /\ lhs \in PointLists
    /\ rhs \in PointLists
    /\ sum = <<>>
    /\ apc = "start"
    /\ FieldIdle /\ PolyIdle /\ DivIdle /\ DftIdle /\ PowIdle /\ ExtIdle

PointWiseAdd ==
    /\ apc = "start"
    /\ sum' = pointwise_add(lhs, rhs)
    /\ apc' = "returned"
    /\ UNCHANGED <<lhs, rhs>>
    /\ UNCHANGED <<fieldVars, polyVars, divVars, dftVars, powVars, extVars>>

NextPointWise == PointWiseAdd

SpecPointWise == InitPointWise /\ [][NextPointWise]_vars

(***************************************************************************)
(* The two pairings of the bilinearity law, built from three scalars.      *)
(***************************************************************************)
InitPairing ==
    /\ ea \in {from_usize(n) : n \in 0 .. (P - 1)}
    /\ eb \in {from_usize(n) : n \in FieldArgs}
    /\ ec \in {from_usize(n) : n \in FieldArgs}
    /\ eleft = 0
    /\ eright = 0
    /\ epc = "start"
    /\ FieldIdle /\ PolyIdle /\ DivIdle /\ DftIdle /\ PowIdle /\ AddIdle
    /\ RndIdle /\ CrtIdle

PairingLeft ==
    /\ epc = "start"
    /\ eleft' = pairing(encrypt_g1(mul(ea, eb)), encrypt_g2(ec))
    /\ epc' = "left"
    /\ UNCHANGED <<ea, eb, ec, eright>>
    /\ UNCHANGED <<fieldVars, polyVars, divVars, dftVars, powVars, addVars>>
    /\ UNCHANGED <<rndVars, crtVars>>

PairingRight ==
    /\ epc = "left"
    /\ eright' = pairing(encrypt_g1(ea), encrypt_g2(mul(eb, ec)))
    /\ epc' = "both"
    /\ UNCHANGED <<ea, eb, ec, eleft>>
    /\ UNCHANGED <<fieldVars, polyVars, divVars, dftVars, powVars, addVars>>
    /\ UNCHANGED <<rndVars, crtVars>>

NextPairing == PairingLeft \/ PairingRight

SpecPairing == InitPairing /\ [][NextPairing]_vars

(***************************************************************************)
(* Sampling: random() draws one byte; random_elem() draws until the        *)
(* element is not zero.                                                    *)
(***************************************************************************)
Bytes == 0 .. (U8 - 1)

InitRandom ==
    /\ rsrc = 0
    /\ relem = 0
    /\ rop = "start"
    /\ FieldIdle /\ PolyIdle /\ DivIdle /\ DftIdle /\ PowIdle /\ AddIdle
    /\ PairIdle /\ CrtIdle

Random(byte) ==
    /\ rop # "random_elem_retry"
    /\ rsrc' = byte
    /\ relem' = random_from(byte)
    /\ rop' = "random"
    /\ UNCHANGED <<fieldVars, polyVars, divVars, dftVars, powVars, addVars>>
    /\ UNCHANGED <<pairVars, crtVars>>

RandomElemDraw(byte) ==
    /\ rsrc' = byte
    /\ relem' = random_from(byte)
    /\ rop' = IF relem' = zero THEN "random_elem_retry" ELSE "random_elem"
    /\ UNCHANGED <<fieldVars, polyVars, divVars, dftVars, powVars, addVars>>
    /\ UNCHANGED <<pairVars, crtVars>>

NextRandom ==
    \/ \E byte \in Bytes : Random(byte)
    \/ \E byte \in Bytes : RandomElemDraw(byte)

SpecRandom == InitRandom /\ [][NextRandom]_vars

(***************************************************************************)
(* chinese_remainder on residues and pairwise coprime positive moduli.     *)
(***************************************************************************)
RECURSIVE Gcd(_, _)
Gcd(a, b) == IF b = 0 THEN a ELSE Gcd(b, a % b)

PairwiseCoprime(ms) ==
    \A i \in 1 .. Len(ms) : \A j \in 1 .. Len(ms) : i # j => Gcd(ms[i], ms[j]) = 1

Residues == (-1) .. MaxRem

InitCrt ==
    /\ \/ \E n \in 0 .. MaxCrtLen :
             /\ moduli \in {ms \in [1 .. n -> 1 .. MaxModulus] : PairwiseCoprime(ms)}
             /\ rems \in [1 .. n -> Residues]
       \/ moduli = <<3, 4, 5>> /\ rems = <<0, 3, 4>>
       \/ moduli = <<2, 3, 5, 7>> /\ rems = <<1, 2, 3, 4>>
    /\ cres = 0
    /\ cpc = "start"
    /\ FieldIdle /\ PolyIdle /\ DivIdle /\ DftIdle /\ PowIdle /\ AddIdle
    /\ PairIdle /\ RndIdle

ChineseRemainder ==
    /\ cpc = "start"
    /\ cres' = chinese_remainder(rems, moduli)
    /\ cpc' = "returned"
    /\ UNCHANGED <<rems, moduli>>
    /\ UNCHANGED <<fieldVars, polyVars, divVars, dftVars, powVars, addVars>>
    /\ UNCHANGED <<pairVars, rndVars>>

NextCrt == ChineseRemainder

SpecCrt == InitCrt /\ [][NextCrt]_vars

(***************************************************************************)
(* Mathematical yardsticks for the properties: residues mod P, polynomials *)
(* as coefficient functions.                                               *)
(***************************************************************************)
RECURSIVE ModPow(_, _)
ModPow(x, k) == IF k = 0 THEN 1 % P ELSE (x * ModPow(x, k - 1)) % P

Coef(p, i) == IF i >= 1 /\ i <= Len(p) THEN p[i] % P ELSE 0

RECURSIVE ConvSum(_, _, _, _)
ConvSum(a, b, k, i) ==
    IF i = 0 THEN 0 ELSE (Coef(a, i) * Coef(b, k + 1 - i) + ConvSum(a, b, k, i - 1)) % P

(* coefficient of x^(k-1) in a*b + c *)
MulAddCoef(a, b, c, k) == (ConvSum(a, b, k, k) + Coef(c, k)) % P

AllZero(p) == \A i \in 1 .. Len(p) : p[i] = 0

LastNonZero(p) ==
    IF AllZero(p) THEN 0 ELSE CHOOSE i \in 1 .. Len(p) : p[i] # 0 /\ \A j \in (i + 1) .. Len(p) : p[j] = 0

(* degree in the usual sense; the zero polynomial lies below every degree *)
MathDeg(p) == LastNonZero(p) - 1

QuotientRemainder(n, d, qq, rr) ==
    /\ \A k \in 1 .. (Len(n) + Len(d) + Len(qq) + Len(rr)) :
          Coef(n, k) = MulAddCoef(qq, d, rr, k)
    /\ MathDeg(rr) < MathDeg(d)

(* C1: polynomial_division(n, d) with d not all-zero returns (q, r) with
   n = q*d + r and deg(r) < deg(d), for every n and d, deg(d) > deg(n)
   included. *)
C1_DivisionLaw ==
    dpc = "done" => QuotientRemainder(poly, dividend, q, r)

(* C2: for every nonzero a of Z251, a * a.mul_inv() is one. *)
C2_MulInvLaw ==
    (fop = "mul_inv" /\ fprev \in 1 .. (P - 1)) => mul(fprev, fx) = one

C2_Witness == fop = "mul_inv" /\ fprev = 2 /\ fx = 126

(* C3: mul_inv of zero, and division by zero, end in a DivisionByZero
   failure and never return a field element. *)
C3_InverseOfZeroFails ==
    ((fop = "mul_inv" /\ fprev = 0) \/ (fop = "div" /\ fy = 0))
        => fret = "DivisionByZero"

(* C4: idft(dft(v, root), root) = v for a primitive len(v)-th root. *)
C4_RoundTrip == tpc = "idft" => back = seq

C4_Witness ==
    /\ tpc = "idft"
    /\ Len(seq) = 5
    /\ seq = <<1, 2, 0, 1, 2>>
    /\ freq # seq
    /\ back = seq

(* C5: every operation on operands in [0, 251) gives a result in [0, 251). *)
C5_ResultsReduced ==
    (fop \notin {"init", "idle"} /\ fprev \in Z251 /\ fy \in Z251) => fx \in Z251

(* C6: an all-zero (or empty) divisor makes polynomial_division panic
   before anything else: no pair is produced and nothing is computed. *)
C6_ZeroDivisorPanics ==
    (dpc # "start" /\ AllZero(dividend)) => (dpc = "panic" /\ q = <<>> /\ r = <<>>)

C6_Witness ==
    /\ dpc = "panic"
    /\ dividend = <<0, 0>>
    /\ poly = <<1, 2>>

(* C7: evaluate (Horner) equals the weighted sum of coeff[i] * x^i with the
   powers drawn from powers(x). *)
C7_EvaluateIsWeightedSum ==
    pop = "evaluate" => pval = weighted_sum(pself, px)

C7_Witness ==
    /\ pop = "evaluate"
    /\ pself = <<1, 2, 0>>
    /\ px = 2
    /\ pval = 5

(* C8: PointWise addition of operands whose index lists differ (in length
   or at some position) ends in an error, never in a result. *)
C8_MismatchIsError ==
    (/\ apc # "start"
     /\ \/ Len(lhs) # Len(rhs)
        \/ \E i \in 1 .. Min(Len(lhs), Len(rhs)) : lhs[i].degree # rhs[i].degree)
        => apc = "error"

(* the coefficients of pself are those of pin below pin's trailing zeros *)
TrimmedExactly == pself = SubSeq(pin, 1, LastNonZero(pin))

(* C9, as stated: remove_leading_zeros removes exactly the trailing zeros
   and always leaves at least one element. *)
C9_TrimLeavesOne ==
    pop = "remove_leading_zeros" => (TrimmedExactly /\ Len(pself) >= 1)

(* C9, amended: remove_leading_zeros removes exactly the trailing zeros,
   keeping the lower coefficients in value and order; an all-zero or empty
   vector becomes the empty vector. *)
C9_TrimExact ==
    pop = "remove_leading_zeros"
        => (TrimmedExactly /\ (AllZero(pin) => pself = <<>>))

C9_Witness ==
    /\ pop = "remove_leading_zeros"
    /\ pin = <<0, 2, 0>>
    /\ pself = <<0, 2>>

(* C10: the k-th item of every powers(x) iterator is x^k, whatever the
   interleaving of draws with the other iterators. *)
C10_PowersIndependent ==
    \A i \in 1 .. Len(drawn) :
        \A k \in 1 .. Len(drawn[i]) : drawn[i][k] = ModPow(iters[i].x, k - 1)

C10_Witness ==
    /\ Len(iters) = 2
    /\ drawn[1] = <<1, 2, 4>>
    /\ drawn[2] = <<1, 250>>

(* C11: pairing(encrypt_g1(a*b), encrypt_g2(c)) equals
   pairing(encrypt_g1(a), encrypt_g2(b*c)) for all a, b, c of Z251. *)
C11_Bilinear == epc = "both" => eleft = eright

C11_Witness ==
    /\ epc = "both"
    /\ ea = 7 /\ eb = 3 /\ ec = 2
    /\ eleft = eright
    /\ eleft # 0

Preimages(e) == {byte \in Bytes : random_from(byte) = e}

(* C12: Z251::random is uniform: every element of [0, 251) has as many
   source bytes mapped to it as the element just returned. *)
C12_Uniform ==
    rop = "random"
        => \A e \in Z251 : Cardinality(Preimages(e)) = Cardinality(Preimages(relem))

(* C13: the result of chinese_remainder on equal-length residues and
   pairwise coprime positive moduli is congruent to rems[i] modulo
   moduli[i] for every i. *)
C13_Congruent ==
    cpc = "returned"
        => \A i \in 1 .. Len(moduli) : (cres - rems[i]) % moduli[i] = 0

C13_Witness ==
    /\ cpc = "returned"
    /\ moduli = <<2, 3, 5, 7>>
    /\ rems = <<1, 2, 3, 4>>
    /\ cres % 210 = 53

C13_WitnessSmall ==
    /\ cpc = "returned"
    /\ moduli = <<3, 4, 5>>
    /\ rems = <<0, 3, 4>>
    /\ cres % 60 = 39

PassBound == degree(poly) - degree(dividend) + 1

PassesBounded ==
    (dpc \in {"loop", "done"} /\ degree(dividend) <= degree(poly))
        => passes <= PassBound

(* C14: the division loop terminates: every pass makes r strictly shorter,
   the loop is left exactly when deg(r) < deg(d) or r is empty, and no more
   than deg(n) - deg(d) + 1 passes are made. *)
C14_LoopTerminates ==
    [][/\ DivIter => Len(r') < Len(r)
       /\ (dpc = "loop" /\ dpc' = "done")
             => (degree(r) < degree(dividend) \/ r = <<>>)
       /\ PassesBounded']_vars

C14_Witness ==
    /\ dpc = "done"
    /\ passes = 3
    /\ Len(poly) = 3
    /\ Len(dividend) = 1
    /\ r = <<>>

====
